---- MODULE Spec2Model ----
(***************************************************************************)
(* Sniphles (sniphles.py): phased structural-variant calling driver.       *)
(*                                                                         *)
(* The module models main()'s per-chromosome loop and the functions it     *)
(* calls: check_phase_blocks, get_unphased_blocks, make_bams,              *)
(* get_coverage, sniffles, concat_vcf and merge_haplotypes.                *)
(*                                                                         *)
(* Three specifications are given:                                         *)
(*   Spec        a run of main() on a bounded alignment file;              *)
(*   SpecBlocks  get_unphased_blocks applied to bounded lists of phase     *)
(*               blocks (the function on its own);                         *)
(*   SpecAgg     lines 50-53 of main() (the three concat_vcf calls and     *)
(*               merge_haplotypes) applied to bounded accumulations.       *)
(*                                                                         *)
(* Python values that the code compares with == or uses as dict keys are   *)
(* modelled with their type: the int 1 and the str '1' are different       *)
(* values, as they are in Python.                                          *)
(***************************************************************************)
EXTENDS Integers, Sequences, FiniteSets, TLC

VARIABLES
    pc,                  \* position in main(): "line<N>", "done" or "error"
    err,                 \* the uncaught exception that ended the run, if any
    nchrom,              \* len(bam.references)
    ci,                  \* chromosomes whose loop body has completed
    reads,               \* bam.fetch(contig=chrom): the current chromosome's reads
    chromLen,            \* bam.get_reference_length(chrom)
    phase_blocks,        \* main: phase_blocks
    unphased_blocks,     \* get_unphased_blocks: its return value (SpecBlocks)
    bi,                  \* blocks of phase_blocks already taken by "for block"
    tmpbams,             \* main: tmpbams (paths returned by make_bams)
    pi,                  \* pairs of zip(tmpbams, block.phase) already taken
    cov,                 \* main: cov
    tmpbam_files,        \* temporary .bam files on disk: path -> reads written
    variant_files,       \* main: variant_files (defaultdict(list))
    h1_vcf, h2_vcf, unph_vcf,
    vcfs_per_chromosome,
    vcf_files,           \* .vcf files on disk: path -> set of call-results held
    ntmp                 \* tempfile.mkstemp: names handed out so far

vars == <<pc, err, nchrom, ci, reads, chromLen, phase_blocks, unphased_blocks,
          bi, tmpbams, pi, cov, tmpbam_files, variant_files, h1_vcf, h2_vcf,
          unph_vcf, vcfs_per_chromosome, vcf_files, ntmp>>

----------------------------------------------------------------------------
(* Bounds *)

MaxChroms == 2      \* chromosomes in the alignment file
MaxLen == 4         \* chromosome length (Spec)
MaxReads == 2       \* reads per chromosome (Spec)
MaxPos == 5         \* chromosome length (SpecBlocks)
MaxBlocks == 3      \* phase blocks handed to get_unphased_blocks (SpecBlocks)
MaxVcfs == 2        \* call-results accumulated per key (SpecAgg)

----------------------------------------------------------------------------
(* Python values *)

I1 == "int 1"
I2 == "int 2"
S1 == "str '1'"
S2 == "str '2'"
SU == "str 'u'"
NoTag == "no tag"

HPValues == {I1, I2, S1, S2}
PSName == <<"ps1", "ps2", "ps3", "ps4", "ps5", "ps6">>
NOID == "NOID"

\* The haplotype a tag value or a label stands for (0: none).
HapOf(v) == IF v \in {I1, S1} THEN 1 ELSE IF v \in {I2, S2} THEN 2 ELSE 0

None == <<"None", 0>>
NoErr == [exc |-> "none", line |-> 0]
NoCov == <<0, 0>>

Min(S) == CHOOSE x \in S : \A y \in S : x <= y
Max(S) == CHOOSE x \in S : \A y \in S : x >= y
Range(s) == {s[i] : i \in 1..Len(s)}

\* class PhaseBlock
PhaseBlock(id, start, end, phase, status) ==
    [id |-> id, start |-> start, end |-> end, phase |-> phase, status |-> status]

\* sorted(xs, key=lambda x: x.start): Python's sort is stable.
RECURSIVE InsertByStart(_, _)
InsertByStart(b, s) ==
    IF s = <<>> THEN <<b>>
    ELSE IF b.start < Head(s).start THEN <<b>> \o s
    ELSE <<Head(s)>> \o InsertByStart(b, Tail(s))

RECURSIVE SortedByStart(_)
SortedByStart(s) ==
    IF s = <<>> THEN <<>>
    ELSE InsertByStart(s[Len(s)], SortedByStart(SubSeq(s, 1, Len(s) - 1)))

\* sorted([...]) of integers
RECURSIVE SortedInts(_)
SortedInts(s) ==
    IF s = <<>> THEN <<>>
    ELSE LET rest == SortedInts(SubSeq(s, 1, Len(s) - 1))
             x == s[Len(s)]
             k == Cardinality({i \in 1..Len(rest) : rest[i] <= x})
         IN SubSeq(rest, 1, k) \o <<x>> \o SubSeq(rest, k + 1, Len(rest))

----------------------------------------------------------------------------
(* get_unphased_blocks (lines 118-165) *)

\* line 139
StartPositions(blocks) == SortedInts([i \in 1..Len(blocks) |-> blocks[i].start])

\* line 145
MaxEndPosition(blocks, start) ==
    Max({blocks[i].end : i \in {j \in 1..Len(blocks) : blocks[j].start = start}})

\* lines 141, 144-148
UnphasedIntervalsStarts(blocks) ==
    LET sp == StartPositions(blocks)
    IN <<0>> \o [i \in 1..Len(sp) |-> MaxEndPosition(blocks, sp[i])]

\* lines 142, 151, 153
UnphasedIntervalsEnds(blocks, chromosome_end_position) ==
    StartPositions(blocks) \o <<chromosome_end_position>>

\* line 155
UnphasedIntervals(blocks, chromosome_end_position) ==
    LET s == UnphasedIntervalsStarts(blocks)
        e == UnphasedIntervalsEnds(blocks, chromosome_end_position)
    IN [i \in 1..Min({Len(s), Len(e)}) |-> <<s[i], e[i]>>]

\* line 163 without its filter: every zipped pair becomes a block.
KeepIntervalAll(interval) == TRUE

\* line 163: the filter of the list comprehension
KeepInterval(interval) == interval[1] # interval[2]

get_unphased_blocks(blocks, chromosome_end_position) ==
    LET iv == UnphasedIntervals(blocks, chromosome_end_position)
        kept == SelectSeq(iv, KeepInterval)
    IN SortedByStart([i \in 1..Len(kept) |->
           PhaseBlock(NOID, kept[i][1], kept[i][2], <<SU>>, "unphased")])

----------------------------------------------------------------------------
(* SpecBlocks: get_unphased_blocks on its own *)

\* Phase blocks as check_phase_blocks returns them: start < end, inside the
\* chromosome, sorted by start.
RECURSIVE BlockLists(_, _)
BlockLists(n, L) ==
    IF n = 0 THEN {<<>>}
    ELSE LET shorter == BlockLists(n - 1, L)
             From(s) == IF s = <<>> THEN 0 ELSE s[Len(s)].start
         IN shorter \cup UNION {
                {Append(s, PhaseBlock(PSName[n], sp[1], sp[2], <<I1>>, "monophasic")) :
                     sp \in {x \in (From(s)..(L - 1)) \X (1..L) : x[1] < x[2]}} :
                s \in {t \in shorter : Len(t) = n - 1}}

\* The example of the specification: [100,200) {1,2} and [300,400) {1} on 500.
ExampleBlocks ==
    << PhaseBlock("ps1", 100, 200, <<I1, I2>>, "biphasic"),
       PhaseBlock("ps2", 300, 400, <<S1>>, "monophasic") >>

\* Two touching intervals [100,200) and [200,300).
TouchingBlocks ==
    << PhaseBlock("ps1", 100, 200, <<S1>>, "monophasic"),
       PhaseBlock("ps2", 200, 300, <<S1>>, "monophasic") >>

Quiet ==
    /\ err = NoErr /\ nchrom = 0 /\ ci = 0 /\ reads = <<>> /\ bi = 0
    /\ tmpbams = <<>> /\ pi = 0 /\ cov = NoCov /\ tmpbam_files = {}
    /\ h1_vcf = None /\ h2_vcf = None /\ unph_vcf = None
    /\ vcfs_per_chromosome = <<>> /\ ntmp = 0

InitBlocks ==
    /\ Quiet
    /\ pc = "call"
    /\ \/ \E L \in 1..MaxPos :
            /\ chromLen = L
            /\ phase_blocks \in BlockLists(MaxBlocks, L)
       \/ /\ chromLen = 500
          /\ phase_blocks = ExampleBlocks
       \/ /\ chromLen \in {300, 500}
          /\ phase_blocks = TouchingBlocks
    /\ unphased_blocks = <<>>
    /\ variant_files = <<>>
    /\ vcf_files = {}

GetUnphasedBlocks ==
    /\ pc = "call"
    /\ unphased_blocks' = get_unphased_blocks(phase_blocks, chromLen)
    /\ pc' = "return"
    /\ UNCHANGED <<err, nchrom, ci, reads, chromLen, phase_blocks, bi, tmpbams,
                   pi, cov, tmpbam_files, variant_files, h1_vcf, h2_vcf,
                   unph_vcf, vcfs_per_chromosome, vcf_files, ntmp>>

NextBlocks == GetUnphasedBlocks

SpecBlocks == InitBlocks /\ [][NextBlocks]_vars

----------------------------------------------------------------------------
(* Properties of get_unphased_blocks *)

Overlap(a, b) == a.start < b.end /\ b.start < a.end

PairwiseDisjoint(blocks) ==
    \A i, j \in 1..Len(blocks) : i # j => ~Overlap(blocks[i], blocks[j])

DistinctStarts(blocks) ==
    \A i, j \in 1..Len(blocks) : i # j => blocks[i].start # blocks[j].start

\* The spans [0,s1), [e_i, s_(i+1)), [en, L) of a list (s1,e1) < ... < (sn,en).
Gaps(blocks, L) ==
    [i \in 1..(Len(blocks) + 1) |->
        << IF i = 1 THEN 0 ELSE blocks[i - 1].end,
           IF i = Len(blocks) + 1 THEN L ELSE blocks[i].start >>]

NonEmptySpan(g) == g[1] < g[2]

Spans(blocks) == [i \in 1..Len(blocks) |-> <<blocks[i].start, blocks[i].end>>]

\* C2: for pairwise disjoint phase blocks with distinct starts,
\* get_unphased_blocks returns exactly the non-empty spans among [0,s1),
\* [e_i, s_(i+1)) and [en, L), in ascending order of start, each with status
\* 'unphased', label ['u'] and no degenerate span; for [100,200), [300,400)
\* on 500 these are [0,100), [200,300), [400,500).
C2_ComplementOfDisjoint ==
    (pc = "return" /\ PairwiseDisjoint(phase_blocks) /\ DistinctStarts(phase_blocks))
    => /\ Spans(unphased_blocks) = SelectSeq(Gaps(phase_blocks, chromLen), NonEmptySpan)
       /\ \A i \in 1..Len(unphased_blocks) :
            /\ unphased_blocks[i].status = "unphased"
            /\ unphased_blocks[i].phase = <<SU>>
            /\ unphased_blocks[i].start < unphased_blocks[i].end
       /\ \A i \in 1..(Len(unphased_blocks) - 1) :
            unphased_blocks[i].start < unphased_blocks[i + 1].start
       /\ (phase_blocks = ExampleBlocks /\ chromLen = 500)
            => Spans(unphased_blocks) = << <<0, 100>>, <<200, 300>>, <<400, 500>> >>
       /\ (phase_blocks = TouchingBlocks /\ chromLen = 300)
            => Spans(unphased_blocks) = << <<0, 100>> >>

\* Witness of C2: a list of two touching blocks, the first starting at 0,
\* the second ending before the chromosome does, has been complemented.
C2_Witness ==
    /\ pc = "return"
    /\ Len(phase_blocks) = 2
    /\ PairwiseDisjoint(phase_blocks) /\ DistinctStarts(phase_blocks)
    /\ phase_blocks[1].start = 0
    /\ phase_blocks[1].end = phase_blocks[2].start
    /\ phase_blocks[2].end < chromLen
    /\ Len(unphased_blocks) = 1


SharedStartOnly(blocks) ==
    \A i, j \in 1..Len(blocks) :
        (i # j /\ Overlap(blocks[i], blocks[j])) => blocks[i].start = blocks[j].start

\* C8: when phase blocks overlap only by sharing a start, the gap after a
\* shared-start group is anchored at the group's maximum end only: every
\* emitted unphased interval has start < end and intersects no phase block.
C8_SharedStartGroups ==
    (pc = "return" /\ SharedStartOnly(phase_blocks))
    => \A i \in 1..Len(unphased_blocks) :
         /\ unphased_blocks[i].start < unphased_blocks[i].end
         /\ \A j \in 1..Len(phase_blocks) :
              ~Overlap(unphased_blocks[i], phase_blocks[j])

----------------------------------------------------------------------------
(* The alignment file *)

PSKeys == {PSName[i] : i \in 1..MaxReads}

\* A read: reference_start, reference_end, its HP tag and its PS tag.
Reads(L) ==
    {[start |-> a, end |-> b, hp |-> h, ps |-> p] :
        a \in 0..(L - 1), b \in 1..L,
        h \in HPValues \cup {NoTag}, p \in PSKeys \cup {NoTag}}

RECURSIVE ReadLists(_, _)
ReadLists(n, L) ==
    IF n = 0 THEN {<<>>}
    ELSE LET shorter == ReadLists(n - 1, L)
         IN shorter \cup
            {Append(s, r) : s \in {t \in shorter : Len(t) = n - 1},
                            r \in {x \in Reads(L) : x.start < x.end}}

\* A coordinate-sorted file; a read without HP carries no PS either, and the
\* HP tags of one file have one type (all int or all str).
IsReadList(s) ==
    /\ \A i \in 1..Len(s) : s[i].hp = NoTag => s[i].ps = NoTag
    /\ \/ \A i \in 1..Len(s) : s[i].hp \in {I1, I2, NoTag}
       \/ \A i \in 1..Len(s) : s[i].hp \in {S1, S2, NoTag}
    /\ \A i \in 1..(Len(s) - 1) : s[i].start <= s[i + 1].start

ReadSeqs(L) == {s \in ReadLists(MaxReads, L) : IsReadList(s)}

HasHP(read) == read.hp # NoTag

\* bam.fetch(contig, start, end): the reads overlapping [start, end)
Fetch(rs, start, end) ==
    LET InRegion(r) == r.start < end /\ r.end > start
    IN SelectSeq(rs, InRegion)

----------------------------------------------------------------------------
(* check_phase_blocks (lines 82-115) *)

\* line 92
TaggedReads(rs) == SelectSeq(rs, HasHP)

\* line 93: read.get_tag('PS') raises KeyError when the tag is absent
PSMissing(rs) == \E i \in 1..Len(rs) : HasHP(rs[i]) /\ rs[i].ps = NoTag

\* phase_dict.keys(): the PS values in order of first occurrence
RECURSIVE KeysInOrder(_)
KeysInOrder(rs) ==
    IF rs = <<>> THEN <<>>
    ELSE LET before == KeysInOrder(SubSeq(rs, 1, Len(rs) - 1))
             k == rs[Len(rs)].ps
         IN IF k \in Range(before) THEN before ELSE Append(before, k)

\* line 93: phase_dict[block_identifier]
PhaseDict(rs, k) ==
    LET InGroup(r) == r.ps = k
        grp == SelectSeq(TaggedReads(rs), InGroup)
    IN [i \in 1..Len(grp) |-> grp[i].hp]

\* line 94: coordinate_dict[block_identifier]
CoordinateDict(rs, k) ==
    LET tagged == TaggedReads(rs)
    IN UNION {{tagged[i].start, tagged[i].end} :
                 i \in {j \in 1..Len(tagged) : tagged[j].ps = k}}

\* line 97: the test for a biphasic group
IsBiphasic(hps) == S1 \in Range(hps) /\ S2 \in Range(hps)

\* lines 96-114
BlockOf(rs, k) ==
    LET hps == PhaseDict(rs, k)
        co == CoordinateDict(rs, k)
    IN IF IsBiphasic(hps)
       THEN PhaseBlock(k, Min(co), Max(co), <<I1, I2>>, "biphasic")
       ELSE PhaseBlock(k, Min(co), Max(co), <<hps[1]>>, "monophasic")

check_phase_blocks(rs) ==
    LET keys == KeysInOrder(TaggedReads(rs))
    IN SortedByStart([i \in 1..Len(keys) |-> BlockOf(rs, keys[i])])

----------------------------------------------------------------------------
(* make_bams (lines 168-195) *)

\* lines 187-193: the reads written to the temporary file of one label
ReadSetFor(rs, block, phase) ==
    LET region == Fetch(rs, block.start, block.end)
        Same(r) == HasHP(r) /\ r.hp = phase
    IN IF phase = SU THEN region ELSE SelectSeq(region, Same)

\* line 185: tempfile.mkstemp(suffix=".bam")
BamPath(n) == <<"bam", n>>

\* The files make_bams writes, one per label of the block.
make_bams(rs, block, n) ==
    [i \in 1..Len(block.phase) |->
        [path |-> BamPath(n + i), content |-> ReadSetFor(rs, block, block.phase[i])]]


----------------------------------------------------------------------------
(* get_coverage (lines 198-210) and the gate of line 46 *)

\* Mean depths mosdepth may report, as <<numerator, denominator>>:
\* 0, 9.99, 10.0 and 25.
Depths == { <<0, 1>>, <<999, 100>>, <<10, 1>>, <<25, 1>> }

\* The depth of a file without reads is 0.
get_coverage(content) == IF content = <<>> THEN { <<0, 1>> } ELSE Depths

\* line 46: the threshold
CovThreshold == 10

\* line 46: cov >= 10
Admits(c) == c[1] >= CovThreshold * c[2]

----------------------------------------------------------------------------
(* Calls: Python binds the arguments of a call to the parameters of the
   function and raises TypeError when their numbers differ; a name used in
   a body and bound nowhere raises NameError. *)

Binds(params, args) == Len(params) = Len(args)

\* line 213: def sniffles(tmpdvcf, tmpbam, status)
SnifflesParams == <<"tmpdvcf", "tmpbam", "status">>
\* line 47: sniffles(tmpbam, block.status)
SnifflesArgs == <<"tmpbam", "block.status">>
\* lines 220-221: the names the body binds
SnifflesLocals == {"handle", "tmppath", "tmpd"}
\* lines 224-225: the names the command line is formatted from
SnifflesUses == {"tmpd", "s", "tmpbam", "tmppath"}

\* The exception a call of sniffles from line 47 ends with (NoErr: none).
SnifflesOutcome ==
    IF ~Binds(SnifflesParams, SnifflesArgs)
    THEN [exc |-> "TypeError", line |-> 47]
    ELSE IF ~(SnifflesUses \subseteq (Range(SnifflesParams) \cup SnifflesLocals))
    THEN [exc |-> "NameError", line |-> 225]
    ELSE NoErr

\* line 246: def merge_haplotypes(H1, H2)
MergeParams == <<"H1", "H2">>
\* line 53: merge_haplotypes(h1_vcf, h2_vcf, unph_vcf)
MergeArgs == <<"h1_vcf", "h2_vcf", "unph_vcf">>

MergeOutcome ==
    IF ~Binds(MergeParams, MergeArgs)
    THEN [exc |-> "TypeError", line |-> 53]
    ELSE NoErr

----------------------------------------------------------------------------
(* concat_vcf (lines 230-243) *)

\* line 230: the default of `output` is evaluated once, when the function is
\* defined: every call without `output` gets this one path.
DefaultOutput == <<"vcf default", 0>>
\* line 55: args.vcf
OutputVcf == <<"args.vcf", 0>>
\* line 220: tempfile.mkstemp(prefix=tmpdvcf, suffix=".vcf")
VcfPath(n) == <<"vcf", n>>

ContentOf(files, path) == UNION {f.content : f \in {g \in files : g.path = path}}

\* [ret, files, exc]: the value returned, the .vcf files afterwards, the
\* exception raised.
concat_vcf(vcfs, output, files) ==
    IF vcfs # <<>>
    THEN IF None \in Range(vcfs)
         \* line 236: ' '.join(vcfs) with a None item
         THEN [ret |-> None, files |-> files, exc |-> [exc |-> "TypeError", line |-> 236]]
         ELSE LET merged == UNION {ContentOf(files, vcfs[i]) : i \in 1..Len(vcfs)}
                  written == {f \in files : f.path # output}
                                 \cup {[path |-> output, content |-> merged]}
              IN [ret |-> output,
                  files |-> {f \in written : f.path \notin Range(vcfs)},
                  exc |-> NoErr]
    ELSE [ret |-> None, files |-> files, exc |-> NoErr]

----------------------------------------------------------------------------
(* main (lines 23-57) *)

DictKeys == {I1, I2, S1, S2, SU}
EmptyDict == [k \in DictKeys |-> <<>>]

\* The block, the label and the file of the current iteration of lines 42-49.
Block == phase_blocks[bi]
Phase == Block.phase[pi]
Tmpbam == tmpbams[pi]

Init ==
    /\ pc = "line34"
    /\ err = NoErr
    /\ nchrom \in 0..MaxChroms
    /\ ci = 0
    /\ reads = <<>>
    /\ chromLen = 0
    /\ phase_blocks = <<>>
    /\ unphased_blocks = <<>>
    /\ bi = 0
    /\ tmpbams = <<>>
    /\ pi = 0
    /\ cov = NoCov
    /\ tmpbam_files = {}
    /\ variant_files = EmptyDict
    /\ h1_vcf = None /\ h2_vcf = None /\ unph_vcf = None
    /\ vcfs_per_chromosome = <<>>
    /\ vcf_files = {[path |-> DefaultOutput, content |-> {}]}
    /\ ntmp = 0

Raise(e) == pc' = "error" /\ err' = e

\* lines 34-36: the next chromosome and its phase blocks
ForChrom ==
    /\ pc = "line34"
    /\ ci < nchrom
    /\ \E L \in 1..MaxLen : \E rs \in ReadSeqs(L) :
         /\ chromLen' = L
         /\ reads' = rs
         /\ IF PSMissing(rs)
            THEN /\ Raise([exc |-> "KeyError", line |-> 93])
                 /\ UNCHANGED phase_blocks
            ELSE /\ phase_blocks' = check_phase_blocks(rs)
                 /\ pc' = "line38"
                 /\ UNCHANGED err
    /\ UNCHANGED <<nchrom, ci, unphased_blocks, bi, tmpbams, pi, cov, tmpbam_files,
                   variant_files, h1_vcf, h2_vcf, unph_vcf, vcfs_per_chromosome,
                   vcf_files, ntmp>>

\* lines 38-40: the unphased blocks are added, the accumulation is emptied
ExtendUnphased ==
    /\ pc = "line38"
    /\ phase_blocks' = phase_blocks \o get_unphased_blocks(phase_blocks, chromLen)
    /\ variant_files' = EmptyDict
    /\ bi' = 0
    /\ pc' = "line42"
    /\ UNCHANGED <<err, nchrom, ci, reads, chromLen, unphased_blocks, tmpbams, pi,
                   cov, tmpbam_files, h1_vcf, h2_vcf, unph_vcf,
                   vcfs_per_chromosome, vcf_files, ntmp>>

\* lines 42-43: the next block and its temporary files
ForBlock ==
    /\ pc = "line42"
    /\ bi < Len(phase_blocks)
    /\ LET made == make_bams(reads, phase_blocks[bi + 1], ntmp)
       IN /\ tmpbams' = [i \in 1..Len(made) |-> made[i].path]
          /\ tmpbam_files' = tmpbam_files \cup Range(made)
          /\ ntmp' = ntmp + Len(made)
          /\ pc' = IF Len(made) = 0 THEN "line42" ELSE "line44"
    /\ bi' = bi + 1
    /\ pi' = 0
    /\ UNCHANGED <<err, nchrom, ci, reads, chromLen, phase_blocks, unphased_blocks,
                   cov, variant_files, h1_vcf, h2_vcf, unph_vcf,
                   vcfs_per_chromosome, vcf_files>>

\* lines 44-45: the next (tmpbam, phase) pair and its coverage
GetCoverage ==
    /\ pc = "line44"
    /\ pi < Len(tmpbams)
    /\ pi' = pi + 1
    /\ \E f \in {g \in tmpbam_files : g.path = tmpbams[pi + 1]} :
         cov' \in get_coverage(f.content)
    /\ pc' = "line46"
    /\ UNCHANGED <<err, nchrom, ci, reads, chromLen, phase_blocks, unphased_blocks,
                   bi, tmpbams, tmpbam_files, variant_files, h1_vcf, h2_vcf,
                   unph_vcf, vcfs_per_chromosome, vcf_files, ntmp>>

\* lines 46-48: the read-set is admitted and sniffles is called
CallSniffles ==
    /\ pc = "line46"
    /\ Admits(cov)
    /\ IF SnifflesOutcome # NoErr
       THEN /\ Raise(SnifflesOutcome)
            /\ UNCHANGED <<variant_files, vcf_files, ntmp>>
       ELSE /\ vcf_files' = vcf_files \cup
                  {[path |-> VcfPath(ntmp + 1),
                    content |-> {[bam |-> Tmpbam, status |-> Block.status]}]}
            /\ variant_files' =
                  [variant_files EXCEPT ![Phase] = Append(@, VcfPath(ntmp + 1))]
            /\ ntmp' = ntmp + 1
            /\ pc' = "line49"
            /\ UNCHANGED err
    /\ UNCHANGED <<nchrom, ci, reads, chromLen, phase_blocks, unphased_blocks, bi,
                   tmpbams, pi, cov, tmpbam_files, h1_vcf, h2_vcf, unph_vcf,
                   vcfs_per_chromosome>>

\* line 46: the read-set is below the threshold
SkipLowCoverage ==
    /\ pc = "line46"
    /\ ~Admits(cov)
    /\ pc' = "line49"
    /\ UNCHANGED <<err, nchrom, ci, reads, chromLen, phase_blocks, unphased_blocks,
                   bi, tmpbams, pi, cov, tmpbam_files, variant_files, h1_vcf,
                   h2_vcf, unph_vcf, vcfs_per_chromosome, vcf_files, ntmp>>

\* line 49: os.remove(tmpbam)
RemoveTmpbam ==
    /\ pc = "line49"
    /\ tmpbam_files' = {f \in tmpbam_files : f.path # Tmpbam}
    /\ cov' = NoCov
    /\ pc' = IF pi < Len(tmpbams) THEN "line44" ELSE "line42"
    /\ UNCHANGED <<err, nchrom, ci, reads, chromLen, phase_blocks, unphased_blocks,
                   bi, tmpbams, pi, variant_files, h1_vcf, h2_vcf, unph_vcf,
                   vcfs_per_chromosome, vcf_files, ntmp>>

\* line 50: h1_vcf = concat_vcf(variant_files['1'])
ConcatH1 ==
    /\ pc = "line42"
    /\ bi = Len(phase_blocks)
    /\ LET r == concat_vcf(variant_files[S1], DefaultOutput, vcf_files)
       IN /\ h1_vcf' = r.ret
          /\ vcf_files' = r.files
    /\ pc' = "line51"
    /\ UNCHANGED <<err, nchrom, ci, reads, chromLen, phase_blocks, unphased_blocks,
                   bi, tmpbams, pi, cov, tmpbam_files, variant_files, h2_vcf,
                   unph_vcf, vcfs_per_chromosome, ntmp>>

\* line 51: h2_vcf = concat_vcf(variant_files['2'])
ConcatH2 ==
    /\ pc = "line51"
    /\ LET r == concat_vcf(variant_files[S2], DefaultOutput, vcf_files)
       IN /\ h2_vcf' = r.ret
          /\ vcf_files' = r.files
    /\ pc' = "line52"
    /\ UNCHANGED <<err, nchrom, ci, reads, chromLen, phase_blocks, unphased_blocks,
                   bi, tmpbams, pi, cov, tmpbam_files, variant_files, h1_vcf,
                   unph_vcf, vcfs_per_chromosome, ntmp>>

\* line 52: unph_vcf = concat_vcf(variant_files['u'])
ConcatUnph ==
    /\ pc = "line52"
    /\ LET r == concat_vcf(variant_files[SU], DefaultOutput, vcf_files)
       IN /\ unph_vcf' = r.ret
          /\ vcf_files' = r.files
    /\ pc' = "line53"
    /\ UNCHANGED <<err, nchrom, ci, reads, chromLen, phase_blocks, unphased_blocks,
                   bi, tmpbams, pi, cov, tmpbam_files, variant_files, h1_vcf,
                   h2_vcf, vcfs_per_chromosome, ntmp>>

\* lines 53-54: merge_haplotypes, whose body is `pass` and returns None
MergeHaplotypes ==
    /\ pc = "line53"
    /\ IF MergeOutcome # NoErr
       THEN /\ Raise(MergeOutcome)
            /\ UNCHANGED <<vcfs_per_chromosome, ci>>
       ELSE /\ vcfs_per_chromosome' = Append(vcfs_per_chromosome, None)
            /\ ci' = ci + 1
            /\ pc' = "line34"
            /\ UNCHANGED err
    /\ UNCHANGED <<nchrom, reads, chromLen, phase_blocks, unphased_blocks, bi,
                   tmpbams, pi, cov, tmpbam_files, variant_files, h1_vcf, h2_vcf,
                   unph_vcf, vcf_files, ntmp>>

\* lines 55-57: the final concatenation, once every chromosome is done
FinalConcat ==
    /\ pc = "line34"
    /\ ci = nchrom
    /\ LET r == concat_vcf(vcfs_per_chromosome, OutputVcf, vcf_files)
       IN IF r.exc # NoErr
          THEN /\ Raise(r.exc)
               /\ UNCHANGED vcf_files
          ELSE /\ vcf_files' = r.files
               /\ pc' = "done"
               /\ UNCHANGED err
    /\ UNCHANGED <<nchrom, ci, reads, chromLen, phase_blocks, unphased_blocks, bi,
                   tmpbams, pi, cov, tmpbam_files, variant_files, h1_vcf, h2_vcf,
                   unph_vcf, vcfs_per_chromosome, ntmp>>

Next ==
    \/ ForChrom
    \/ ExtendUnphased
    \/ ForBlock
    \/ GetCoverage
    \/ CallSniffles
    \/ SkipLowCoverage
    \/ RemoveTmpbam
    \/ ConcatH1
    \/ ConcatH2
    \/ ConcatUnph
    \/ MergeHaplotypes
    \/ FinalConcat

Spec == Init /\ [][Next]_vars


----------------------------------------------------------------------------
(* SpecAgg: lines 50-53 of main on bounded accumulations *)

KeyOrder == <<S1, S2, SU, I1, I2>>

\* The call-result sniffles writes for the n-th temporary file.
CallResult(n) == [bam |-> BamPath(n), status |-> "monophasic"]

RECURSIVE Offset(_, _)
Offset(counts, k) ==
    IF k = 0 THEN 0 ELSE counts[KeyOrder[k]] + Offset(counts, k - 1)

\* variant_files with counts[k] call-results under key k, each its own file.
Accumulated(counts) ==
    [k \in DictKeys |->
        LET pos == CHOOSE j \in 1..Len(KeyOrder) : KeyOrder[j] = k
        IN [j \in 1..counts[k] |-> VcfPath(Offset(counts, pos - 1) + j)]]

InitAgg ==
    /\ pc = "line42"
    /\ err = NoErr
    /\ nchrom = 1
    /\ ci = 0
    /\ reads = <<>>
    /\ chromLen = 1
    /\ phase_blocks = <<>>
    /\ unphased_blocks = <<>>
    /\ bi = 0
    /\ tmpbams = <<>>
    /\ pi = 0
    /\ cov = NoCov
    /\ tmpbam_files = {}
    /\ \E counts \in [DictKeys -> 0..MaxVcfs] :
         /\ variant_files = Accumulated(counts)
         /\ ntmp = Offset(counts, Len(KeyOrder))
         /\ vcf_files = {[path |-> DefaultOutput, content |-> {}]} \cup
                {[path |-> VcfPath(n), content |-> {CallResult(n)}] :
                     n \in 1..Offset(counts, Len(KeyOrder))}
    /\ h1_vcf = None /\ h2_vcf = None /\ unph_vcf = None
    /\ vcfs_per_chromosome = <<>>

NextAgg ==
    \/ ConcatH1
    \/ ConcatH2
    \/ ConcatUnph
    \/ MergeHaplotypes

SpecAgg == InitAgg /\ [][NextAgg]_vars

----------------------------------------------------------------------------
(* Properties of main *)

Covering(blocks, x) == {i \in 1..Len(blocks) : blocks[i].start <= x /\ x < blocks[i].end}

\* C1: for every chromosome main processes, the phased intervals of
\* check_phase_blocks together with the intervals of get_unphased_blocks
\* partition [0, chromosome_length): every coordinate lies in exactly one.
C1_Partition ==
    (pc = "line42" /\ bi = 0)
    => \A x \in 0..(chromLen - 1) : Cardinality(Covering(phase_blocks, x)) = 1

HapsOf(hps) == {HapOf(hps[i]) : i \in 1..Len(hps)}

\* C3: for a phase-set group whose HP tags are the integers 1 and 2, the
\* interval check_phase_blocks emits is biphasic iff both 1 and 2 occur in
\* the group, monophasic iff exactly one occurs (its label then the first
\* observed), and its label list is never empty.
C3_Status ==
    pc = "line38"
    => \A i \in 1..Len(phase_blocks) :
         LET b == phase_blocks[i]
             hps == PhaseDict(reads, b.id)
         IN Range(hps) \subseteq {I1, I2}
            => /\ b.status = "biphasic" <=> HapsOf(hps) = {1, 2}
               /\ b.status = "monophasic" <=> Cardinality(HapsOf(hps)) = 1
               /\ b.status = "monophasic" => b.phase = <<hps[1]>>
               /\ b.phase # <<>>

\* The reads of the chromosome that intersect the block and belong to the
\* haplotype of the label (every intersecting read for the label 'u').
ExpectedReadSet(rs, block, label) ==
    LET Wanted(r) == /\ r.start < block.end /\ r.end > block.start
                     /\ (label # SU => (HasHP(r) /\ HapOf(r.hp) = HapOf(label)))
    IN SelectSeq(rs, Wanted)

\* C4: make_bams returns one read-set per label of the block, in label
\* order; the read-set of a label h of a phased block holds exactly the
\* reads intersecting the block whose haplotype tag is h, and the read-set
\* of an unphased block holds every read intersecting it.
C4_ReadSets ==
    (pc = "line44" /\ pi = 0)
    => /\ Len(tmpbams) = Len(Block.phase)
       /\ \A i \in 1..Len(tmpbams) :
            \E f \in tmpbam_files :
               /\ f.path = tmpbams[i]
               /\ f.content = ExpectedReadSet(reads, Block, Block.phase[i])

ResultsFrom(path) == {f \in vcf_files : \E c \in f.content : c.bam = path}

\* C5: a read-set whose mean depth is >= 10 (10.0 included) is handed to
\* sniffles, which produces exactly one call-result, appended to the
\* accumulation of its label; a read-set below 10 (9.99) is not called and
\* adds no call-result.
C5_Gate ==
    /\ ~(pc = "error" /\ err.line \in {47, 225})
    /\ (pc = "line49" /\ Admits(cov))
         => /\ Cardinality(ResultsFrom(Tmpbam)) = 1
            /\ \E f \in ResultsFrom(Tmpbam) :
                 variant_files[Phase][Len(variant_files[Phase])] = f.path
    /\ (pc = "line49" /\ ~Admits(cov)) => ResultsFrom(Tmpbam) = {}

\* The key line 50, 51 or 52 reads for a label.
ReadKey(label) ==
    IF label = SU THEN SU ELSE IF HapOf(label) = 1 THEN S1 ELSE S2

C7_EmptySkipped ==
    /\ (pc = "line51" /\ variant_files[S1] = <<>>)
         => (h1_vcf = None /\ vcf_files = {[path |-> DefaultOutput, content |-> {}]})
    /\ pc = "line34" => None \notin Range(vcfs_per_chromosome)
    /\ ~(pc = "error" /\ err.line \in {53, 236})

\* C9: at every point of a run at most one read-set file exists (for the
\* haplotypes of one interval as well as across intervals), and every
\* read-set is deleted, admitted or skipped.
C9_OneReadSet ==
    /\ Cardinality(tmpbam_files) <= 1
    /\ pc \in {"line34", "line51", "line52", "line53", "done", "error"}
         => tmpbam_files = {}

NotNone(s) == {x \in s : x # None}

ExpectedContent(key) ==
    {CallResult(n) : n \in {m \in 1..ntmp : VcfPath(m) \in Range(variant_files[key])}}

====
